---- MODULE Spec2Model ----
(***************************************************************************)
(* Authentication and data-synchronisation layer of the school scheduling  *)
(* tool: AuthProvider (src/src/context/AuthContext.tsx) and DataProvider   *)
(* (src/src/context/DataContext.tsx), with the hosted auth provider and    *)
(* the document store as their environment.                                *)
(*                                                                         *)
(* React state is modelled at the granularity of committed renders: every  *)
(* handler call reads the state of the latest render, the setState calls   *)
(* of one synchronous run are applied together, and the data effect runs   *)
(* with the commit that changed one of its dependencies.  The continuation *)
(* of an async handler after its await works on the values its closure     *)
(* captured when the handler was called.                                   *)
(***************************************************************************)
EXTENDS Integers, Sequences, FiniteSets, TLC

VARIABLES
    phase,          \* "init" (constructed), "mounted", "unmounted"
    authAvailable,  \* firebase.ts: `auth` is defined
    session,        \* identity the auth provider holds
    authEvents,     \* auth-state notifications not yet handed to the callback
    signOuts,       \* signOut() calls in flight, by caller: "cb" or "logout"
    logoutResume,   \* logout() calls whose await has resolved
    user,           \* AuthProvider state
    role,
    loading,
    initialData,    \* DataProvider prop: <<>> (absent) or <<snapshot>>
    data,           \* DataProvider state
    isLoading,
    history,
    historyPointer,
    sub,            \* store subscription of the effect: "none", "active", "failed"
    openSubs,       \* listeners the store holds: subscribed, and neither unsubscribed nor ended
    notify,         \* the store has a document to deliver to the subscription
    storeDoc,       \* the document the store holds
    inflight,       \* dbService.save promises not yet settled, with their closures
    storeCalled,    \* record: dbService.subscribe or dbService.save was called
    unhandled,      \* record: a handler's promise rejected
    persistFailed,  \* record: a dbService.save promise rejected
    ops,            \* record: handler calls and outside events (sign-ins, remote writes) so far
    lastOp,         \* record: the step taken last
    beforeUndo      \* record: <<data, in history>> as of the undo taken last, else <<>>

authVars == <<authAvailable, session, authEvents, signOuts, logoutResume, user, role, loading>>
dataVars == <<data, isLoading, history, historyPointer, sub, openSubs, notify, storeCalled>>
envVars == <<storeDoc, inflight, unhandled, persistFailed>>
vars == <<phase, authVars, initialData, dataVars, envVars, ops, lastOp, beforeUndo>>

----------------------------------------------------------------------------
(* Bounds of the exploration *)
MaxOps == 3
MaxInflight == 2
MaxSignOuts == 1
MaxDocOps == 2
SeqSaves == 53

(* Program constants *)
HistoryLimit == 50

NoUser == "none"
NoRole == "null"
ADMIN_EMAIL == "admin@gymnasium22.com"
TEACHER_EMAIL == "teacher@gymnasium22.com"
OTHER_EMAIL == "someone@example.com"
Emails == {ADMIN_EMAIL, TEACHER_EMAIL, OTHER_EMAIL}

----------------------------------------------------------------------------
(* AppData.  An object is a function from its keys; `{...a, ...b}` is Spread. *)
Spread(a, b) == [k \in DOMAIN a \cup DOMAIN b |-> IF k \in DOMAIN b THEN b[k] ELSE a[k]]

Shifts == <<"First", "Second">>
DEFAULT_BELLS == <<1, 2>>
DEFAULT_SETTINGS == [theme |-> 0, x |-> 0]
INITIAL_DATA ==
    [subjects |-> <<>>, teachers |-> <<>>, classes |-> <<>>, rooms |-> <<>>,
     schedule |-> <<>>, substitutions |-> <<>>,
     bellSchedule |-> DEFAULT_BELLS, settings |-> DEFAULT_SETTINGS]

\* `null` or `undefined` held by field k.  TLC compares like with like only, so it is
\* a value of the field's kind that no value of the program equals.
Nullish(k) ==
    IF k = "settings" THEN [null |-> TRUE]
    ELSE IF k = "teachers" THEN <<[null |-> TRUE]>>
    ELSE <<-1>>

\* `!o.k` is false ([] and {} are truthy).
Truthy(o, k) == k \in DOMAIN o /\ o[k] # Nullish(k)

\* `undefined`: spreading it contributes no key.
Undefined == [k \in {} |-> 0]

\* h[i], indices from 0; beyond the array it is undefined.
At(h, i) == IF i >= 0 /\ i < Len(h) THEN h[i + 1] ELSE Undefined

NormalizeTeacher(t) == Spread([shifts |-> Shifts, telegramChatId |-> ""], t)

\* A bug FixLoaded could have: the document spread over the defaults, and no more.
FixLoadedShallow(loaded) == Spread(INITIAL_DATA, loaded)

\* Lines 58-69: fixedData.
FixLoaded(loaded) ==
    LET f0 == Spread(INITIAL_DATA, loaded)
        f1 == IF Truthy(f0, "teachers") THEN f0 ELSE Spread(f0, [teachers |-> <<>>])
        f2 == Spread(f1, [teachers |->
                  [i \in 1..Len(f1.teachers) |-> NormalizeTeacher(f1.teachers[i])]])
        f3 == IF Truthy(f2, "schedule") THEN f2 ELSE Spread(f2, [schedule |-> <<>>])
        f4 == IF Truthy(f3, "substitutions") THEN f3 ELSE Spread(f3, [substitutions |-> <<>>])
        f5 == IF Truthy(f4, "bellSchedule") THEN f4 ELSE Spread(f4, [bellSchedule |-> DEFAULT_BELLS])
    IN  IF Truthy(f5, "settings")
        THEN Spread(f5, [settings |-> Spread(INITIAL_DATA.settings, f5.settings)])
        ELSE Spread(f5, [settings |-> INITIAL_DATA.settings])

(* Snapshots and updates the exploration draws from *)
Snap(k) == Spread(INITIAL_DATA, [schedule |-> <<k>>])
\* An edit of the schedule: the content after it is new.
Edit(sched) == IF sched = <<>> THEN <<1>> ELSE <<sched[1] + 1>>
Updates(d) == {[schedule |-> Edit(IF Truthy(d, "schedule") THEN d.schedule ELSE <<>>)]}
PublicSnapshot == Spread(INITIAL_DATA, [rooms |-> <<7>>])
StoredDoc == [teachers |-> <<[id |-> 1]>>, settings |-> [x |-> 1]]
RemoteDocs == {[schedule |-> <<9>>, settings |-> [x |-> 1]]}

\* Documents the store may hold: every selection of the fields of FullDoc, and
\* documents that hold null in a field.
FullDoc ==
    [teachers |-> <<[id |-> 1]>>, schedule |-> <<9>>, substitutions |-> <<4>>,
     bellSchedule |-> <<3>>, settings |-> [x |-> 1], rooms |-> <<7>>]
Select(o, K) == [k \in K |-> o[k]]
Docs ==
    {Select(FullDoc, K) : K \in SUBSET DOMAIN FullDoc}
        \cup {Spread(FullDoc, [j \in {k} |-> Nullish(k)]) : k \in DOMAIN FullDoc}
        \cup {[j \in {k} |-> Nullish(k)] : k \in DOMAIN FullDoc}
\* Partial updates: an edit, or a field given as undefined.
Partials(d) == Updates(d) \cup {[rooms |-> Nullish("rooms")]}

----------------------------------------------------------------------------
(* DataProvider: the effect of lines 29-99, run with dependencies (u, r, l). *)

\* A bug CanLoadData could have: the comparison with 'guest' inverted.
CanLoadDataInverted(u, r) == u # NoUser \/ r # "guest"

\* Line 44: canLoadData.
CanLoadData(u, r) == u # NoUser \/ r = "guest"

\* A bug Cleanup could have: no cleanup function returned by the effect.
CleanupMissing(s, n) == n

\* Lines 95-97: the cleanup of a run that subscribed calls unsubscribe(); the listener
\* of a subscription that failed has ended already.
Cleanup(s, n) == IF s = "active" THEN n - 1 ELSE n

\* The cleanup of the previous run, then the body.
Effect(u, r, l) ==
    IF initialData # <<>>
    THEN /\ data' = initialData[1]
         /\ history' = <<initialData[1]>>
         /\ historyPointer' = 0
         /\ isLoading' = FALSE
         /\ sub' = "none"
         /\ openSubs' = Cleanup(sub, openSubs)
         /\ notify' = (notify /\ openSubs' > 0)
         /\ UNCHANGED storeCalled
    ELSE IF l
    THEN /\ sub' = "none"
         /\ openSubs' = Cleanup(sub, openSubs)
         /\ notify' = (notify /\ openSubs' > 0)
         /\ UNCHANGED <<data, isLoading, history, historyPointer, storeCalled>>
    ELSE IF ~CanLoadData(u, r)
    THEN /\ data' = INITIAL_DATA
         /\ isLoading' = FALSE
         /\ sub' = "none"
         /\ openSubs' = Cleanup(sub, openSubs)
         /\ notify' = (notify /\ openSubs' > 0)
         /\ UNCHANGED <<history, historyPointer, storeCalled>>
    ELSE /\ isLoading' = TRUE
         /\ sub' = "active"
         /\ openSubs' = Cleanup(sub, openSubs) + 1
         /\ notify' = TRUE
         /\ storeCalled' = TRUE
         /\ UNCHANGED <<data, history, historyPointer>>

\* A commit of AuthProvider state; the effect runs when a dependency changed.
Commit(u, r, l) ==
    /\ user' = u
    /\ role' = r
    /\ loading' = l
    /\ IF <<u, r, l>> # <<user, role, loading>>
       THEN Effect(u, r, l)
       ELSE UNCHANGED dataVars

\* First render and the mount effects of both providers.
Mount ==
    /\ phase = "init"
    /\ phase' = "mounted"
    /\ IF authAvailable
       THEN /\ authEvents' = <<session>>
            /\ UNCHANGED <<user, role, loading>>
            /\ Effect(user, role, loading)
       ELSE /\ loading' = FALSE
            /\ UNCHANGED <<user, role, authEvents>>
            /\ Effect(user, role, FALSE)
    /\ lastOp' = "mount"
    /\ UNCHANGED <<authAvailable, session, signOuts, logoutResume, initialData,
                   envVars, ops, beforeUndo>>

\* Both providers unmount: the auth listener and the store subscription end, and
\* the state of the components is discarded.
Unmount ==
    /\ phase = "mounted"
    /\ phase' = "unmounted"
    /\ sub' = "none"
    /\ openSubs' = Cleanup(sub, openSubs)
    /\ notify' = (notify /\ openSubs' > 0)
    /\ authEvents' = <<>>
    /\ user' = NoUser /\ role' = NoRole /\ loading' = TRUE
    /\ data' = INITIAL_DATA /\ isLoading' = TRUE
    /\ history' = <<>> /\ historyPointer' = -1
    /\ signOuts' = <<>> /\ logoutResume' = 0 /\ inflight' = <<>>
    /\ lastOp' = "unmount"
    /\ beforeUndo' = <<>>
    /\ UNCHANGED <<authAvailable, session, initialData, storeCalled, storeDoc, unhandled,
                   persistFailed, ops>>

----------------------------------------------------------------------------
(* AuthProvider *)

\* A bug RoleOf could have: every address but the admin's counts as the teacher's.
RoleOfLax(email) == IF email = ADMIN_EMAIL THEN "admin" ELSE "teacher"

\* Lines 39-45: the role of a signed-in identity (NoRole: rejected).
RoleOf(email) ==
    IF email = ADMIN_EMAIL THEN "admin"
    ELSE IF email = TEACHER_EMAIL THEN "teacher"
    ELSE NoRole

\* The callback given to auth.onAuthStateChanged, for the oldest notification.
AuthStateChanged ==
    /\ phase = "mounted"
    /\ authEvents # <<>>
    /\ LET currentUser == Head(authEvents)
           rejected == currentUser # NoUser /\ RoleOf(currentUser) = NoRole
       IN  /\ rejected => Len(signOuts) < MaxSignOuts
           /\ signOuts' = IF rejected THEN Append(signOuts, "cb") ELSE signOuts
           /\ Commit(currentUser,
                     IF currentUser = NoUser THEN NoRole ELSE RoleOf(currentUser),
                     FALSE)
    /\ authEvents' = Tail(authEvents)
    /\ lastOp' = "authStateChanged"
    /\ beforeUndo' = <<>>
    /\ UNCHANGED <<phase, authAvailable, session, logoutResume, initialData, envVars, ops>>

\* logout(), up to its await.
Logout ==
    /\ phase = "mounted"
    /\ IF authAvailable
       THEN /\ Len(signOuts) < MaxSignOuts
            /\ signOuts' = Append(signOuts, "logout")
            /\ UNCHANGED <<user, role, loading, dataVars>>
       ELSE /\ UNCHANGED signOuts
            /\ Commit(user, NoRole, loading)
    /\ ops' = ops + 1
    /\ lastOp' = "logout"
    /\ beforeUndo' = <<>>
    /\ UNCHANGED <<phase, authAvailable, session, authEvents, logoutResume, initialData,
                   envVars>>

\* A bug LogoutFinish could have: setRole(null) left out.
LogoutFinishKeepsRole ==
    /\ phase = "mounted"
    /\ logoutResume > 0
    /\ logoutResume' = logoutResume - 1
    /\ lastOp' = "logoutFinish"
    /\ beforeUndo' = <<>>
    /\ UNCHANGED <<phase, authAvailable, session, authEvents, signOuts, user, role, loading,
                   initialData, dataVars, envVars, ops>>

\* logout() after its await: setRole(null).
LogoutFinish ==
    /\ phase = "mounted"
    /\ logoutResume > 0
    /\ logoutResume' = logoutResume - 1
    /\ Commit(user, NoRole, loading)
    /\ lastOp' = "logoutFinish"
    /\ beforeUndo' = <<>>
    /\ UNCHANGED <<phase, authAvailable, session, authEvents, signOuts, initialData,
                   envVars, ops>>

SetGuestRole ==
    /\ phase = "mounted"
    /\ Commit(user, "guest", FALSE)
    /\ ops' = ops + 1
    /\ lastOp' = "setGuestRole"
    /\ beforeUndo' = <<>>
    /\ UNCHANGED <<phase, authAvailable, session, authEvents, signOuts, logoutResume,
                   initialData, envVars>>

(* The auth provider *)

\* Somebody signs in (the login form, or a session kept from an earlier visit).
SignIn(email) ==
    /\ authAvailable
    /\ phase # "unmounted"
    /\ session # email
    /\ session' = email
    /\ authEvents' = IF phase = "mounted" THEN Append(authEvents, email) ELSE authEvents
    /\ ops' = ops + 1
    /\ lastOp' = "signIn"
    /\ beforeUndo' = <<>>
    /\ UNCHANGED <<phase, authAvailable, signOuts, logoutResume, user, role, loading,
                   initialData, dataVars, envVars>>

\* The provider carries out the oldest signOut() and settles its promise.
SignOutDone ==
    /\ signOuts # <<>>
    /\ signOuts' = Tail(signOuts)
    /\ session' = NoUser
    /\ authEvents' = IF phase = "mounted" /\ session # NoUser
                     THEN Append(authEvents, NoUser) ELSE authEvents
    /\ logoutResume' = IF Head(signOuts) = "logout" THEN logoutResume + 1 ELSE logoutResume
    /\ lastOp' = "signOutDone"
    /\ beforeUndo' = <<>>
    /\ UNCHANGED <<phase, authAvailable, user, role, loading, initialData, dataVars,
                   envVars, ops>>

----------------------------------------------------------------------------
(* DataProvider: the write path *)

\* Lines 103 and 109: whether saveData persists to the store.
ShouldPersist(u, r) ==
    LET isGuest == u = NoUser /\ r = "guest"
    IN  initialData = <<>> /\ u # NoUser /\ ~isGuest

\* Bugs HistoryAppend could have: no eviction; the newest entry evicted (pop).
HistoryAppendNoShift(h, p, d) == Append(SubSeq(h, 1, p + 1), d)
HistoryAppendPop(h, p, d) ==
    LET newHistory == Append(SubSeq(h, 1, p + 1), d)
    IN  IF Len(newHistory) > HistoryLimit
        THEN SubSeq(newHistory, 1, Len(newHistory) - 1) ELSE newHistory

\* Lines 120-122: history.slice(0, p + 1), push, shift beyond the limit.
HistoryAppend(h, p, d) ==
    LET newHistory == Append(SubSeq(h, 1, p + 1), d)
    IN  IF Len(newHistory) > HistoryLimit THEN Tail(newHistory) ELSE newHistory

\* A bug ShouldPersistStep could have: the public view forgotten.
ShouldPersistStepAnyView(u) == u # NoUser

\* A bug ShouldPersistStep could have: undo and redo kept local.
ShouldPersistStepNever(u) == FALSE

\* Lines 133 and 142: whether undo and redo persist to the store.
ShouldPersistStep(u) == initialData = <<>> /\ u # NoUser

\* Bugs the guards could have: off by one.
CanUndoOffByOne(p) == p >= 0
CanRedoOffByOne(h, p) == p < Len(h) - 2

\* Lines 129 and 138: the guards of undo and redo.
CanUndo(p) == p > 0
CanRedo(h, p) == p < Len(h) - 1

\* dbService.save(doc) is called; the promise stays pending.
IssueSave(entry) ==
    /\ Len(inflight) < MaxInflight
    /\ inflight' = Append(inflight, entry)
    /\ storeCalled' = TRUE

\* A bug SaveData could have: addToHistory not looked at.
SaveDataAlwaysAppends(newData, addToHistory, label) ==
    /\ phase = "mounted"
    /\ LET mergedData == Spread(data, newData)
       IN  /\ data' = mergedData
           /\ IF ShouldPersist(user, role)
              THEN /\ IssueSave([op |-> "save", doc |-> mergedData, hist |-> history,
                                 ptr |-> historyPointer, add |-> TRUE])
                   /\ UNCHANGED <<history, historyPointer>>
              ELSE /\ UNCHANGED <<inflight, storeCalled>>
                   /\ history' = HistoryAppend(history, historyPointer, mergedData)
                   /\ historyPointer' = Len(history') - 1
    /\ ops' = ops + 1
    /\ lastOp' = label
    /\ beforeUndo' = <<>>
    /\ UNCHANGED <<phase, authVars, initialData, isLoading, sub, openSubs, notify, storeDoc,
                   unhandled, persistFailed>>

\* saveData(newData, addToHistory), up to its await or, without one, to its end.
SaveData(newData, addToHistory, label) ==
    /\ phase = "mounted"
    /\ LET mergedData == Spread(data, newData)
       IN  /\ data' = mergedData
           /\ IF ShouldPersist(user, role)
              THEN /\ IssueSave([op |-> "save", doc |-> mergedData, hist |-> history,
                                 ptr |-> historyPointer, add |-> addToHistory])
                   /\ UNCHANGED <<history, historyPointer>>
              ELSE /\ UNCHANGED <<inflight, storeCalled>>
                   /\ IF addToHistory
                      THEN /\ history' = HistoryAppend(history, historyPointer, mergedData)
                           /\ historyPointer' = Len(history') - 1
                      ELSE UNCHANGED <<history, historyPointer>>
    /\ ops' = ops + 1
    /\ lastOp' = label
    /\ beforeUndo' = <<>>
    /\ UNCHANGED <<phase, authVars, initialData, isLoading, sub, openSubs, notify, storeDoc,
                   unhandled, persistFailed>>

\* resetData(): saveData(INITIAL_DATA).
ResetData == SaveData(INITIAL_DATA, TRUE, "resetData")

Undo ==
    /\ phase = "mounted"
    /\ IF CanUndo(historyPointer)
       THEN LET prevData == At(history, historyPointer - 1)
            IN  /\ historyPointer' = historyPointer - 1
                /\ data' = prevData
                /\ beforeUndo' = <<[d |-> data, atPointer |-> At(history, historyPointer)]>>
                /\ IF ShouldPersistStep(user)
                   THEN IssueSave([op |-> "undo", doc |-> prevData, hist |-> <<>>,
                                   ptr |-> -1, add |-> FALSE])
                   ELSE UNCHANGED <<inflight, storeCalled>>
       ELSE /\ beforeUndo' = <<>>
            /\ UNCHANGED <<historyPointer, data, inflight, storeCalled>>
    /\ ops' = ops + 1
    /\ lastOp' = "undo"
    /\ UNCHANGED <<phase, authVars, initialData, isLoading, history, sub, openSubs, notify, storeDoc,
                   unhandled, persistFailed>>

Redo ==
    /\ phase = "mounted"
    /\ IF CanRedo(history, historyPointer)
       THEN LET nextData == At(history, historyPointer + 1)
            IN  /\ historyPointer' = historyPointer + 1
                /\ data' = nextData
                /\ IF ShouldPersistStep(user)
                   THEN IssueSave([op |-> "redo", doc |-> nextData, hist |-> <<>>,
                                   ptr |-> -1, add |-> FALSE])
                   ELSE UNCHANGED <<inflight, storeCalled>>
       ELSE UNCHANGED <<historyPointer, data, inflight, storeCalled>>
    /\ ops' = ops + 1
    /\ lastOp' = "redo"
    /\ UNCHANGED <<phase, authVars, initialData, isLoading, history, sub, openSubs, notify, storeDoc,
                   unhandled, persistFailed, beforeUndo>>

\* A bug Settle could have: saveData without its try/catch, so that a failed persist
\* ends the call there.
SettleUncaught(ok) ==
    /\ phase = "mounted"
    /\ inflight # <<>>
    /\ LET e == Head(inflight)
       IN  /\ inflight' = Tail(inflight)
           /\ storeDoc' = IF ok THEN e.doc ELSE storeDoc
           /\ notify' = IF ok /\ openSubs > 0 THEN TRUE ELSE notify
           /\ unhandled' = IF ~ok THEN TRUE ELSE unhandled
           /\ persistFailed' = (persistFailed \/ ~ok)
           /\ IF ok /\ e.op = "save" /\ e.add
              THEN /\ history' = HistoryAppend(e.hist, e.ptr, e.doc)
                   /\ historyPointer' = Len(history') - 1
              ELSE UNCHANGED <<history, historyPointer>>
           /\ lastOp' = IF ok THEN "saveDone" ELSE "saveFailed"
    /\ beforeUndo' = <<>>
    /\ UNCHANGED <<phase, authVars, initialData, data, isLoading, sub, openSubs, storeCalled, ops>>

\* What follows the await of the oldest pending save once its promise settles (the
\* store settles the writes of one client in the order they were made): for saveData
\* the catch (on failure) and lines 119-125; undo and redo have no catch.
Settle(ok) ==
    /\ phase = "mounted"
    /\ inflight # <<>>
    /\ LET e == Head(inflight)
       IN  /\ inflight' = Tail(inflight)
           /\ storeDoc' = IF ok THEN e.doc ELSE storeDoc
           /\ notify' = IF ok /\ openSubs > 0 THEN TRUE ELSE notify
           /\ unhandled' = IF ~ok /\ e.op # "save" THEN TRUE ELSE unhandled
           /\ persistFailed' = (persistFailed \/ ~ok)
           /\ IF e.op = "save" /\ e.add
              THEN /\ history' = HistoryAppend(e.hist, e.ptr, e.doc)
                   /\ historyPointer' = Len(history') - 1
              ELSE UNCHANGED <<history, historyPointer>>
           /\ lastOp' = IF ok THEN "saveDone" ELSE "saveFailed"
    /\ beforeUndo' = <<>>
    /\ UNCHANGED <<phase, authVars, initialData, data, isLoading, sub, openSubs, storeCalled, ops>>

SaveDone == Settle(TRUE)
SaveFailed == Settle(FALSE)

----------------------------------------------------------------------------
(* DataProvider: the subscription callbacks (lines 57-91), and the store *)

\* A bug SeedHistory could have: the first document not kept.
SeedHistoryNever(prev, fixedData) == prev

\* Lines 75-82: the functional updates of history and pointer in onData.
SeedHistory(prev, fixedData) == IF Len(prev) = 0 THEN <<fixedData>> ELSE prev

\* A bug SeedPointer could have: the pointer reset by every document.
SeedPointerReset(prev) == 0

SeedPointer(prev) == IF prev = -1 THEN 0 ELSE prev

\* onData(loaded)
StoreDeliver ==
    /\ phase = "mounted"
    /\ openSubs > 0
    /\ notify
    /\ LET fixedData == FixLoaded(storeDoc)
       IN  /\ data' = fixedData
           /\ history' = SeedHistory(history, fixedData)
           /\ historyPointer' = SeedPointer(historyPointer)
    /\ isLoading' = FALSE
    /\ notify' = FALSE
    /\ lastOp' = "onData"
    /\ beforeUndo' = <<>>
    /\ UNCHANGED <<phase, authVars, initialData, sub, openSubs, storeCalled, envVars, ops>>

\* onError(error): the store ends the subscription with an error.
SubscribeError ==
    /\ phase = "mounted"
    /\ sub = "active"
    /\ data' = INITIAL_DATA
    /\ isLoading' = FALSE
    /\ sub' = "failed"
    /\ openSubs' = openSubs - 1
    /\ notify' = (notify /\ openSubs' > 0)
    /\ lastOp' = "onError"
    /\ beforeUndo' = <<>>
    /\ UNCHANGED <<phase, authVars, initialData, history, historyPointer, storeCalled,
                   envVars, ops>>

\* Another client writes the document.
RemoteWrite(doc) ==
    /\ phase # "unmounted"
    /\ storeDoc # doc
    /\ storeDoc' = doc
    /\ notify' = IF openSubs > 0 THEN TRUE ELSE notify
    /\ ops' = ops + 1
    /\ lastOp' = "remoteWrite"
    /\ beforeUndo' = <<>>
    /\ UNCHANGED <<phase, authVars, initialData, data, isLoading, history, historyPointer,
                   sub, openSubs, storeCalled, inflight, unhandled, persistFailed>>

----------------------------------------------------------------------------
(* Initial states *)

\* The providers as constructed (the useState initialisers).
Constructed ==
    /\ phase = "init"
    /\ authAvailable \in BOOLEAN
    /\ initialData \in {<<>>, <<PublicSnapshot>>}
    /\ user = NoUser /\ role = NoRole /\ loading = TRUE
    /\ data = INITIAL_DATA /\ isLoading = TRUE
    /\ history = <<>> /\ historyPointer = -1
    /\ authEvents = <<>>

\* A signed-out session that has made HistoryLimit saves, Snap(1), Snap(2), ... one
\* after the other (SpecSeq reaches this state from Constructed).
LongSession ==
    /\ phase = "mounted"
    /\ authAvailable = TRUE
    /\ initialData = <<>>
    /\ user = NoUser /\ role = NoRole /\ loading = FALSE
    /\ data = Snap(HistoryLimit) /\ isLoading = FALSE
    /\ history = [i \in 1..HistoryLimit |-> Snap(i)]
    /\ historyPointer = HistoryLimit - 1
    /\ authEvents = <<>>

Quiet ==
    /\ session = NoUser /\ signOuts = <<>> /\ logoutResume = 0
    /\ sub = "none" /\ openSubs = 0 /\ notify = FALSE
    /\ storeDoc = StoredDoc /\ inflight = <<>>
    /\ storeCalled = FALSE /\ unhandled = FALSE /\ persistFailed = FALSE

Init ==
    /\ Constructed \/ LongSession
    /\ Quiet
    /\ ops = 0 /\ lastOp = "none" /\ beforeUndo = <<>>

\* No resumed handler is waiting to run.  A settled promise resumes its awaiter in a
\* microtask, which runs before the event loop takes the next event; only the auth
\* callback, which the provider calls around the time it settles signOut(), may run
\* before the resumed logout().
Idle == logoutResume = 0

Next ==
    \/ Mount
    \/ AuthStateChanged
    \/ LogoutFinish
    \/ Idle /\ Unmount
    \/ Idle /\ SignOutDone
    \/ Idle /\ StoreDeliver
    \/ Idle /\ SubscribeError
    \/ Idle /\ SaveDone
    \/ Idle /\ SaveFailed
    \/ Idle /\ ops < MaxOps /\ \E email \in Emails : SignIn(email)
    \/ Idle /\ ops < MaxOps /\ \E doc \in RemoteDocs : RemoteWrite(doc)
    \/ Idle /\ ops < MaxOps /\ Logout
    \/ Idle /\ ops < MaxOps /\ SetGuestRole
    \/ Idle /\ ops < MaxOps /\ \E nd \in Updates(data) : SaveData(nd, TRUE, "saveData")
    \/ Idle /\ ops < MaxOps /\ \E nd \in Updates(data) : SaveData(nd, FALSE, "saveDataNoHistory")
    \/ Idle /\ ops < MaxOps /\ ResetData
    \/ Idle /\ ops < MaxOps /\ Undo
    \/ Idle /\ ops < MaxOps /\ Redo

Spec == Init /\ [][Next]_vars

(* Sequential saves only: a signed-out session that saves SeqSaves times, each call
   made after the one before has completed. *)
InitSeq ==
    /\ Constructed
    /\ initialData = <<>>
    /\ Quiet
    /\ ops = 0 /\ lastOp = "none" /\ beforeUndo = <<>>

NextSeq ==
    \/ Mount
    \/ AuthStateChanged
    \/ ops < SeqSaves /\ ~loading /\ \E nd \in Updates(data) : SaveData(nd, TRUE, "saveData")

SpecSeq == InitSeq /\ [][NextSeq]_vars

(* Documents and partial updates of every shape: a session, signed out or the
   admin's, over a store that holds any of Docs. *)
InitDocs ==
    /\ Constructed
    /\ initialData = <<>>
    /\ authAvailable
    /\ session \in {NoUser, ADMIN_EMAIL}
    /\ signOuts = <<>> /\ logoutResume = 0
    /\ sub = "none" /\ openSubs = 0 /\ notify = FALSE
    /\ storeDoc \in Docs /\ inflight = <<>>
    /\ storeCalled = FALSE /\ unhandled = FALSE /\ persistFailed = FALSE
    /\ ops = 0 /\ lastOp = "none" /\ beforeUndo = <<>>

NextDocs ==
    \/ Mount
    \/ AuthStateChanged
    \/ StoreDeliver
    \/ SaveDone
    \/ ops < MaxDocOps /\ SetGuestRole
    \/ ops < MaxDocOps /\ \E nd \in Partials(data) : SaveData(nd, TRUE, "saveData")

SpecDocs == InitDocs /\ [][NextDocs]_vars

----------------------------------------------------------------------------
(* Steps, as the properties below name them *)

SaveLabels == {"saveData", "saveDataNoHistory", "resetData"}

\* A call of saveData or resetData.
SaveCallStep == lastOp' \in SaveLabels /\ ops' = ops + 1

\* A saveData call with addToHistory true runs to its end: at once when it does not
\* persist, else when the promise it awaits settles.
SaveWithHistoryCompletes ==
    \/ /\ lastOp' \in {"saveData", "resetData"} /\ ops' = ops + 1
       /\ inflight' = inflight
    \/ /\ lastOp' \in {"saveDone", "saveFailed"}
       /\ inflight # <<>> /\ inflight' = Tail(inflight)
       /\ Head(inflight).op = "save" /\ Head(inflight).add

UndoCallStep == lastOp' = "undo" /\ ops' = ops + 1
RedoCallStep == lastOp' = "redo" /\ ops' = ops + 1

----------------------------------------------------------------------------
\* C1: the history never holds more than 50 entries, and when a saveData call with
\* addToHistory true completes (from any state, also after undo, redo and remote
\* pushes) the pointer is history.length - 1.
C1_HistoryBounded ==
    /\ [](Len(history) <= HistoryLimit)
    /\ [][SaveWithHistoryCompletes =>
            /\ Len(history') <= HistoryLimit
            /\ historyPointer' = Len(history') - 1]_vars

\* A persisted save completed on a full history: the oldest entry is gone.
C1_Witness ==
    /\ lastOp = "saveDone"
    /\ Len(history) = HistoryLimit
    /\ historyPointer = HistoryLimit - 1
    /\ history[1] = Snap(2)

\* C2: in every reachable state -1 <= pointer <= history.length - 1.
C2_PointerInRange ==
    /\ -1 <= historyPointer
    /\ historyPointer <= Len(history) - 1

\* A save has completed on its captured history while an undo made after it is
\* still being persisted.
C2_Witness ==
    /\ lastOp = "saveDone"
    /\ inflight # <<>>
    /\ Head(inflight).op = "undo"
    /\ Len(history) > 1

\* C3 as stated: redo right after undo restores the data of before the undo, in
\* every state where undo is possible.
C3_RoundTripAlways ==
    [][(lastOp = "undo" /\ beforeUndo # <<>> /\ RedoCallStep)
         => data' = beforeUndo[1].d]_vars

\* C3 as amended: redo right after undo restores the data of before the undo when
\* that data was the snapshot at the pointer.
C3_RoundTripOfSnapshot ==
    [][(lastOp = "undo" /\ beforeUndo # <<>> /\ RedoCallStep
          /\ beforeUndo[1].d = beforeUndo[1].atPointer)
         => data' = beforeUndo[1].d]_vars

\* Undo then redo, from data that was the snapshot at the pointer.
C3_Witness ==
    /\ lastOp = "redo"
    /\ beforeUndo # <<>>
    /\ beforeUndo[1].d = beforeUndo[1].atPointer
    /\ data = beforeUndo[1].d
    /\ historyPointer > 0

\* C4: in a state where the role is guest, saveData and resetData do not call
\* dbService.save.
C4_GuestNeverPersists ==
    [][(role = "guest" /\ SaveCallStep) => inflight' = inflight]_vars

\* C5: the auth callback, given a signed-in identity that is neither the admin nor
\* the teacher, leaves role null and loading false and calls signOut exactly once.
C5_UnrecognizedRejected ==
    [][(/\ lastOp' = "authStateChanged"
        /\ authEvents # <<>> /\ authEvents' = Tail(authEvents)
        /\ Head(authEvents) \notin {NoUser, ADMIN_EMAIL, TEACHER_EMAIL})
         => /\ role' = NoRole
            /\ loading' = FALSE
            /\ signOuts' = Append(signOuts, "cb")]_vars

\* The callback has run for an unrecognized identity.
C5_Witness ==
    /\ lastOp = "authStateChanged"
    /\ user = OTHER_EMAIL
    /\ role = NoRole
    /\ ~loading
    /\ signOuts = <<"cb">>

\* C6: undo with the pointer at 0 or -1, and redo with the pointer at the tail,
\* change neither data, history nor pointer, and call no dbService.save.
C6_NoOpAtEnds ==
    [][(\/ UndoCallStep /\ historyPointer <= 0
        \/ RedoCallStep /\ historyPointer = Len(history) - 1)
         => UNCHANGED <<data, history, historyPointer, inflight, storeDoc, storeCalled>>]_vars

\* undo was called with the pointer at 0 (a history of one entry).
C6_Witness ==
    /\ lastOp = "undo"
    /\ Len(history) = 1
    /\ historyPointer = 0
    /\ beforeUndo = <<>>

\* C7: a sequential save on a history of 50 entries with the pointer at the tail
\* leaves entries 2..50 followed by the new snapshot; 51 sequential saves from an
\* empty history leave 50 entries, the first save's snapshot evicted.
C7_OldestEvicted ==
    /\ [][(/\ lastOp' = "saveData" /\ ops' = ops + 1
           /\ Len(history) = HistoryLimit /\ historyPointer = HistoryLimit - 1)
            => history' = Tail(history) \o <<data'>>]_vars
    /\ [](ops = HistoryLimit + 1 =>
            /\ Len(history) = HistoryLimit
            /\ history = [i \in 1..HistoryLimit |-> Snap(i + 1)])

\* The 51st sequential save has been made.
C7_Witness ==
    /\ ops = HistoryLimit + 1
    /\ lastOp = "saveData"
    /\ data = Snap(HistoryLimit + 1)
    /\ history[1] = Snap(2)

\* C8: with an explicit snapshot the mount seeds history with exactly that snapshot,
\* pointer 0, isLoading false; and no subscribe or save is ever issued to the store.
C8_PublicViewIsLocal ==
    /\ [][(lastOp' = "mount" /\ phase = "init" /\ initialData # <<>>)
            => /\ history' = initialData
               /\ historyPointer' = 0
               /\ data' = initialData[1]
               /\ isLoading' = FALSE]_vars
    /\ [](initialData # <<>> => ~storeCalled /\ sub = "none" /\ inflight = <<>>)

\* In the public view, with a user signed in, a save and an undo have been made.
C8_Witness ==
    /\ initialData # <<>>
    /\ user = ADMIN_EMAIL
    /\ lastOp = "undo"
    /\ Len(history) = 2
    /\ historyPointer = 0

\* C9: without an explicit snapshot there is no store subscription while auth is
\* loading, nor while auth is resolved with neither a user nor the guest role; when
\* the effect runs in the latter case data becomes INITIAL_DATA and isLoading false.
C9_NoSubscriptionUnlessAllowed ==
    /\ [](initialData = <<>> /\ sub # "none"
            => ~loading /\ (user # NoUser \/ role = "guest"))
    /\ [](phase = "mounted" /\ initialData = <<>> /\ ~loading
            /\ user = NoUser /\ role # "guest" => ~isLoading)
    /\ [][(/\ phase' = "mounted" /\ initialData = <<>>
           /\ <<user', role', loading'>> # <<user, role, loading>>
           /\ ~loading' /\ user' = NoUser /\ role' # "guest")
            => data' = INITIAL_DATA /\ ~isLoading' /\ sub' = "none"
                 /\ storeCalled' = storeCalled]_vars

\* A subscribed session was signed out: the subscription is gone, data is the default.
C9_Witness ==
    /\ lastOp = "authStateChanged"
    /\ initialData = <<>>
    /\ storeCalled
    /\ user = NoUser /\ role = NoRole /\ ~loading
    /\ sub = "none" /\ data = INITIAL_DATA /\ ~isLoading

\* C10: when the persist of a saveData call fails, nothing is raised to the caller,
\* the current data is not rolled back, the history append of that call takes place
\* when addToHistory is true, and no further persist is issued.
C10_FailedPersistSwallowed ==
    [][(/\ lastOp' = "saveFailed"
        /\ inflight # <<>> /\ Head(inflight).op = "save")
         => /\ unhandled' = unhandled
            /\ data' = data
            /\ storeDoc' = storeDoc
            /\ inflight' = Tail(inflight)
            /\ IF Head(inflight).add
               THEN /\ history' # <<>>
                    /\ history'[Len(history')] = Head(inflight).doc
                    /\ historyPointer' = Len(history') - 1
               ELSE UNCHANGED <<history, historyPointer>>]_vars

\* The persist of a save with history failed; its snapshot is data and the tail.
C10_Witness ==
    /\ lastOp = "saveFailed"
    /\ ~unhandled
    /\ inflight = <<>>
    /\ Len(history) > 1
    /\ historyPointer = Len(history) - 1
    /\ history[Len(history)] = data
    /\ FixLoaded(storeDoc) # data

\* C11: when the persist of undo or redo fails, nothing is raised to the caller and
\* neither the pointer move nor the applied snapshot is rolled back.
C11_UndoRedoFailureSwallowed ==
    [][(/\ lastOp' = "saveFailed"
        /\ inflight # <<>> /\ Head(inflight).op \in {"undo", "redo"})
         => /\ unhandled' = unhandled
            /\ data' = data
            /\ historyPointer' = historyPointer
            /\ history' = history]_vars

\* C12: logout calls signOut (there being an auth provider), and when it completes
\* the session is ended and role is null; once nothing of auth is pending, a signed-in
\* admin or teacher does not have role null.
Recognized == {ADMIN_EMAIL, TEACHER_EMAIL}
AuthSettled == authEvents = <<>> /\ signOuts = <<>> /\ logoutResume = 0

C12_LogoutClearsRole ==
    /\ [][(lastOp' = "logout" /\ ops' = ops + 1 /\ authAvailable)
            => signOuts' = Append(signOuts, "logout") /\ role' = role]_vars
    /\ [][(\/ lastOp' = "logoutFinish" /\ logoutResume' = logoutResume - 1
           \/ lastOp' = "logout" /\ ops' = ops + 1 /\ ~authAvailable)
            => role' = NoRole /\ session' = NoUser]_vars
    /\ [](phase = "mounted" /\ AuthSettled /\ user \in Recognized => role # NoRole)

\* An admin logged out, and the logout has completed before the sign-out was notified.
C12_Witness ==
    /\ lastOp = "logoutFinish"
    /\ user = ADMIN_EMAIL
    /\ role = NoRole
    /\ session = NoUser
    /\ authEvents = <<NoUser>>

\* C13: without an explicit snapshot, the current data always has every top-level
\* field (none absent, null or undefined), whatever documents the store delivers and
\* whatever partial updates saveData is given.
C13_AllCollectionsPresent ==
    initialData = <<>> => \A k \in DOMAIN INITIAL_DATA : Truthy(data, k)

C15_AppendAtCurrentPointer ==
    [][SaveWithHistoryCompletes =>
        LET snapshot == IF inflight' = inflight THEN data' ELSE Head(inflight).doc
        IN  /\ history' = HistoryAppend(history, historyPointer, snapshot)
            /\ historyPointer' = Len(history') - 1]_vars

\* C16: a document delivered by the subscription becomes the current data; it makes
\* the history [document] with pointer 0 when the history is empty, and leaves a
\* non-empty history and its pointer as they are.
C16_RemotePushKeepsHistory ==
    [][lastOp' = "onData" =>
        /\ data' = FixLoaded(storeDoc)
        /\ IF history = <<>>
           THEN history' = <<data'>> /\ historyPointer' = 0
           ELSE history' = history /\ historyPointer' = historyPointer]_vars

\* A document arrived on a history of local saves: the history is as it was.
C16_Witness ==
    /\ lastOp = "onData"
    /\ Len(history) = HistoryLimit
    /\ historyPointer = HistoryLimit - 1
    /\ data = FixLoaded(storeDoc)
    /\ data # history[HistoryLimit]

\* C17: the store holds at most one listener of the provider, and only that of the
\* effect run in force; a change of user or role, and the unmount, unsubscribe the
\* listener there was; and no document is handed to the provider but through the
\* subscription in force.
C17_OneSubscription ==
    /\ [](openSubs = IF sub = "active" THEN 1 ELSE 0)
    /\ [][(sub = "active" /\ (user' # user \/ role' # role \/ phase' = "unmounted"))
            => openSubs' = IF sub' = "active" THEN 1 ELSE 0]_vars
    /\ [][lastOp' = "onData" => sub = "active" /\ sub' = "active"]_vars

\* The admin, subscribed, took the guest role: the effect has subscribed anew.
C17_Witness ==
    /\ lastOp = "setGuestRole"
    /\ user = ADMIN_EMAIL
    /\ role = "guest"
    /\ sub = "active"
    /\ openSubs = 1
    /\ notify

\* C18: a saveData call with addToHistory false makes the merge of the data and the
\* update the current data, persists it when a save with history would be persisted,
\* and changes neither the history nor the pointer, at the call or when its persist
\* settles.
C18_NoHistoryWhenSuppressed ==
    /\ [][(lastOp' = "saveDataNoHistory" /\ ops' = ops + 1)
            => /\ \E nd \in Updates(data) : data' = Spread(data, nd)
               /\ UNCHANGED <<history, historyPointer>>
               /\ IF ShouldPersist(user, role)
                  THEN /\ Len(inflight') = Len(inflight) + 1
                       /\ inflight'[Len(inflight')].doc = data'
                  ELSE inflight' = inflight]_vars
    /\ [][(/\ lastOp' \in {"saveDone", "saveFailed"}
           /\ inflight # <<>> /\ Head(inflight).op = "save" /\ ~Head(inflight).add)
            => UNCHANGED <<data, history, historyPointer>>]_vars

\* The persist of a save without history has settled on a history with entries.
C18_Witness ==
    /\ lastOp = "saveDone"
    /\ storeDoc = data
    /\ history # <<>>
    /\ \A i \in 1..Len(history) : history[i] # data

\* C19: dbService.save is called, by saveData, resetData, undo or redo, only in a
\* state where the role is admin or teacher.
C19_SaveOnlyWithRole ==
    [][Len(inflight') > Len(inflight) => role \in {"admin", "teacher"}]_vars

\* C20: for a signed-in admin or teacher with an active subscription, when no persist
\* is pending, none has failed, and the store has no document left to deliver, the
\* current data is the normalised form of the document the store holds.
C20_Converges ==
    (/\ phase = "mounted" /\ initialData = <<>>
     /\ user \in Recognized /\ role \in {"admin", "teacher"}
     /\ sub = "active" /\ ~notify
     /\ inflight = <<>> /\ ~persistFailed)
        => data = FixLoaded(storeDoc)

\* The admin undid a save; both persists succeeded and the store's last document,
\* the snapshot undone to, has been delivered.
C20_Witness ==
    /\ lastOp = "onData"
    /\ user = ADMIN_EMAIL /\ role = "admin"
    /\ sub = "active" /\ ~notify
    /\ inflight = <<>> /\ ~persistFailed
    /\ Len(history) > 1 /\ historyPointer < Len(history) - 1
    /\ storeDoc = history[historyPointer + 1]
    /\ data = storeDoc

====
